---- MODULE Spec2Model ----
(***************************************************************************)
(* The agent worker of agent/agent_worker.go: the ping loop of Start, the  *)
(* Ping handler, Stop and stopIfIdle, the job-wait and idle timer tasks    *)
(* and the operator tasks that call Stop.                                  *)
(*                                                                         *)
(* Every task is cut at the places where it touches state another task     *)
(* reads or writes.  stopping and jobRunner are read without the mutex by  *)
(* the ping loop and by stopIfIdle, and jobRunner is written without it by *)
(* the ping loop, so each such read and write is a step of its own.        *)
(***************************************************************************)
EXTENDS Integers, FiniteSets, Sequences, TLC

\* ---------------------------------------------------------------- bounds
\* Runners that exist at once.  When a.jobRunner is assigned, the runner it
\* held is referred to no longer, unless by the Stop call that holds the mutex:
\* a runner that nothing refers to is then always free.
MaxRunners == 2
\* The count of Run() calls stops at this value, which stands for "or more".
MaxRuns == 2

\* Attempts the AcceptJob retry makes before it gives up.  The source passes
\* retry.Config{Maximum: 30}; the model runs the same retry with this Maximum.
MaxAttempts == 2

\* ---------------------------------------------------------------- tasks
Loop == "loop"
JobWait == "jobwait"
Idle == "idle"
Operators == {"operator"}
Callers == {Loop, JobWait, Idle} \cup Operators

\* A nil *JobRunner; the runners are numbered from 1.
NoRunner == 0
Runners == 1..MaxRunners
\* The Stop call in progress has made no Cancel() call.
NoCancel == "none"

Endpoints == {"E1", "E2"}
NoPing == [Endpoint |-> "-", Action |-> "-", Job |-> FALSE]
\* api.Ping as far as Ping() reads it: Endpoint, Action, Job (nil or not).
PingResponses == [Endpoint : {""} \cup Endpoints, Action : {"", "disconnect"}, Job : BOOLEAN]

NoTimer == [made |-> FALSE, armed |-> FALSE, C |-> FALSE]

VARIABLES
    conf,                   \* AgentWorkerConfig: DisconnectAfterJob, DisconnectAfterIdleTimeout
    running,                \* a.running
    ticker,                 \* a.ticker: "nil", "active" or "stopped"
    disconnectTimeoutTimer, \* a.disconnectTimeoutTimer: made (non-nil), armed, value waiting in C
    idleTimer,              \* a.idleTimer
    stopCloses,             \* number of close(a.stop) executed; a.stop is closed iff > 0
    stopping,               \* a.stopping
    stopMutex,              \* holder of a.stopMutex, or "free"
    jobRunner,              \* a.jobRunner
    apiClient,              \* endpoint of a.apiClient
    agentEndpoint,          \* a.agent.Endpoint
    lastPing,               \* a.lastPing: 0, or 1 once a time has been stored
    pc,                     \* position of every task
    frame,                  \* position of every task inside its Stop call
    graceful,               \* argument of every task's Stop call
    obs,                    \* a.jobRunner as the Stop call read it at line 243
    ping,                   \* local ping of Ping(), as far as the rest of Ping() reads it
    attempts,               \* attempts made by the AcceptJob retry
    err,                    \* local err of Ping() after NewJobRunner
    runsEntered,            \* Run() calls entered so far, up to MaxRuns
    lastCancel              \* the Cancel() call made by the Stop call in progress (see
                            \* CancelOf), or NoCancel

workerVars == <<running, ticker, disconnectTimeoutTimer, idleTimer, stopCloses, stopping,
                jobRunner, apiClient, agentEndpoint>>
stopVars == <<stopMutex, frame, graceful, obs>>
pingVars == <<ping, attempts, err, runsEntered>>
vars == <<conf, lastPing, workerVars, stopVars, pingVars, pc, lastCancel>>

stopClosed == stopCloses > 0

\* ------------------------------------------------------------------ timers
\* time.NewTimer
NewTimer == [made |-> TRUE, armed |-> TRUE, C |-> FALSE]
\* (*Timer).Stop: the timer no longer fires; a value already sent stays in C.
TimerStop(t) == [t EXCEPT !.armed = FALSE]
\* (*Timer).Reset: the timer is armed for its full duration again.
TimerReset(t) == [t EXCEPT !.armed = TRUE]
\* The runtime fires an armed timer: one value is sent on C.
TimerFired(t) == [t EXCEPT !.armed = FALSE, !.C = TRUE]
\* A receive from C.
TimerRecv(t) == [t EXCEPT !.C = FALSE]

\* ------------------------------------------------------------ construction
\* NewAgentWorker: stop is an open channel, every other field is zero.
Init ==
    /\ conf \in [DisconnectAfterJob : BOOLEAN, DisconnectAfterIdleTimeout : {0, 1}]
    /\ running = FALSE
    /\ ticker = "nil"
    /\ disconnectTimeoutTimer = NoTimer
    /\ idleTimer = NoTimer
    /\ stopCloses = 0
    /\ stopping = FALSE
    /\ stopMutex = "free"
    /\ jobRunner = NoRunner
    /\ apiClient = "E1"
    /\ lastPing = 0
    /\ agentEndpoint = "E1"
    /\ pc = [p \in Callers |-> IF p \in Operators THEN "ready" ELSE "new"]
    /\ frame = [p \in Callers |-> "none"]
    /\ graceful = [p \in Callers |-> FALSE]
    /\ obs = [p \in Callers |-> NoRunner]
    /\ ping = NoPing
    /\ attempts = 0
    /\ err = FALSE
    /\ runsEntered = 0
    /\ lastCancel = NoCancel

\* ---------------------------------------------------------------- Stop
\* A task calls a.Stop(g): it goes on to lock a.stopMutex.
CallStop(p, g) ==
    /\ pc' = [pc EXCEPT ![p] = "stop"]
    /\ frame' = [frame EXCEPT ![p] = "lock"]
    /\ graceful' = [graceful EXCEPT ![p] = g]

\* Where a task goes on when its Stop call returns: the ping handler returns
\* after a.Stop(false) and goes on to the idle reset after a.Stop(true).
Continuation(p) ==
    IF p = Loop THEN (IF graceful[Loop] THEN "idlereset" ELSE "select")
    ELSE IF p = JobWait THEN "done"
    ELSE IF p = Idle THEN "wait"
    ELSE "ready"

\* The deferred a.stopMutex.Unlock() and the return of Stop.
StopReturn(p) ==
    /\ stopMutex' = "free"
    /\ frame' = [frame EXCEPT ![p] = "none"]
    /\ graceful' = [graceful EXCEPT ![p] = FALSE]
    /\ obs' = [obs EXCEPT ![p] = NoRunner]
    /\ lastCancel' = NoCancel
    /\ pc' = [pc EXCEPT ![p] = Continuation(p)]
    /\ ping' = IF p = Loop /\ ~graceful[Loop] THEN NoPing ELSE ping

\* StopCheck without the test of a.stopping: every call goes on to close(a.stop).
StopCheckNoGuard(p) ==
    /\ frame' = [frame EXCEPT ![p] = "close"]
    /\ stopMutex' = p
    /\ UNCHANGED <<graceful, obs, pc, ping, lastCancel>>

\* if a.stopping { return }; otherwise the call goes on to close(a.stop).
\* a.stopping is written only under the mutex, which p holds.
StopCheck(p) ==
    IF stopping
    THEN StopReturn(p)
    ELSE /\ frame' = [frame EXCEPT ![p] = "close"]
         /\ stopMutex' = p
         /\ UNCHANGED <<graceful, obs, pc, ping, lastCancel>>

\* StopEnter with the job cancelled in both modes.
StopEnterCancelsAlways(p) ==
    /\ frame[p] = "lock"
    /\ stopMutex = "free"
    /\ IF jobRunner # NoRunner
       THEN /\ stopMutex' = p
            /\ obs' = [obs EXCEPT ![p] = jobRunner]
            /\ frame' = [frame EXCEPT ![p] = "cancel"]
            /\ UNCHANGED <<graceful, pc, ping, lastCancel>>
       ELSE StopCheck(p)
    /\ UNCHANGED <<conf, lastPing, workerVars, attempts, err, runsEntered>>

\* a.stopMutex.Lock() and the branch on graceful: a graceful Stop only logs; a
\* forceful one reads a.jobRunner and goes on to Cancel() when it is set.
StopEnter(p) ==
    /\ frame[p] = "lock"
    /\ stopMutex = "free"
    /\ IF ~graceful[p] /\ jobRunner # NoRunner
       THEN /\ stopMutex' = p
            /\ obs' = [obs EXCEPT ![p] = jobRunner]
            /\ frame' = [frame EXCEPT ![p] = "cancel"]
            /\ UNCHANGED <<graceful, pc, ping, lastCancel>>
       ELSE StopCheck(p)
    /\ UNCHANGED <<conf, lastPing, workerVars, attempts, err, runsEntered>>

\* a.jobRunner.Cancel(): a.jobRunner is read a second time, unsynchronised with
\* the ping loop's writes, so the receiver is the runner seen by the test of
\* line 243 or the field's value now (which may be nil).
CancelReceivers(p) == {obs[p], jobRunner}

\* What a Cancel() call is recorded as: its receiver was nil, the runner
\* a.jobRunner holds at the call, or a runner a.jobRunner no longer holds.
CancelOf(r) ==
    IF r = NoRunner THEN "nil" ELSE IF r = jobRunner THEN "current" ELSE "stale"

\* StopCancel with the Cancel() call left out.
StopCancelSkipped(p) ==
    /\ frame[p] = "cancel"
    /\ lastCancel' = lastCancel
    /\ frame' = [frame EXCEPT ![p] = "check"]
    /\ UNCHANGED <<conf, lastPing, workerVars, stopMutex, graceful, obs, pingVars, pc>>

StopCancel(p) ==
    /\ frame[p] = "cancel"
    /\ \E r \in CancelReceivers(p) : lastCancel' = CancelOf(r)
    /\ frame' = [frame EXCEPT ![p] = "check"]
    /\ UNCHANGED <<conf, lastPing, workerVars, stopMutex, graceful, obs, pingVars, pc>>

\* The test of a.stopping that follows the Cancel() call.
StopAfterCancel(p) ==
    /\ frame[p] = "check"
    /\ StopCheck(p)
    /\ UNCHANGED <<conf, lastPing, workerVars, attempts, err, runsEntered>>

\* close(a.stop); closing a closed channel panics, counted here as a second close.
StopClose(p) ==
    /\ frame[p] = "close"
    /\ stopCloses' = IF stopCloses < 2 THEN stopCloses + 1 ELSE stopCloses
    /\ frame' = [frame EXCEPT ![p] = "mark"]
    /\ UNCHANGED <<conf, lastPing, running, ticker, disconnectTimeoutTimer, idleTimer, stopping,
                   jobRunner, apiClient, agentEndpoint, stopMutex, graceful, obs, pingVars, pc, lastCancel>>

\* StopMark with the assignment a.stopping = true left out.
StopMarkForgotten(p) ==
    /\ frame[p] = "mark"
    /\ stopping' = stopping
    /\ StopReturn(p)
    /\ UNCHANGED <<conf, lastPing, running, ticker, disconnectTimeoutTimer, idleTimer, stopCloses,
                   jobRunner, apiClient, agentEndpoint, attempts, err, runsEntered>>

\* a.stopping = true, then the deferred unlock.
StopMark(p) ==
    /\ frame[p] = "mark"
    /\ stopping' = TRUE
    /\ StopReturn(p)
    /\ UNCHANGED <<conf, lastPing, running, ticker, disconnectTimeoutTimer, idleTimer, stopCloses,
                   jobRunner, apiClient, agentEndpoint, attempts, err, runsEntered>>

\* One step of p's Stop call.
Stop(p) ==
    \/ StopEnter(p)
    \/ StopCancel(p)
    \/ StopAfterCancel(p)
    \/ StopClose(p)
    \/ StopMark(p)

\* An operator task (signal handler) calls a.Stop(g).
OpStop(p, g) ==
    /\ pc[p] = "ready"
    /\ CallStop(p, g)
    /\ UNCHANGED <<conf, lastPing, workerVars, stopMutex, obs, pingVars, lastCancel>>

\* stopIfIdle with the worker never found idle.
stopIfIdleNever(p) ==
    /\ pc[p] = "stopIfIdle"
    /\ pc' = [pc EXCEPT ![p] = IF p = JobWait THEN "done" ELSE "wait"]
    /\ UNCHANGED <<conf, lastPing, workerVars, stopVars, pingVars, lastCancel>>

\* stopIfIdle, called by a timer task.
stopIfIdle(p) ==
    /\ pc[p] = "stopIfIdle"
    /\ IF jobRunner = NoRunner /\ ~stopping
       THEN CallStop(p, TRUE)
       ELSE /\ pc' = [pc EXCEPT ![p] = IF p = JobWait THEN "done" ELSE "wait"]
            /\ UNCHANGED <<frame, graceful>>
    /\ UNCHANGED <<conf, lastPing, workerVars, stopMutex, obs, pingVars, lastCancel>>

\* ------------------------------------------------------------ timer tasks
\* The runtime fires the job-wait timer.  Its task receives from C once: a
\* firing after that receive has no receiver and is left out.
JobWaitFire ==
    /\ disconnectTimeoutTimer.armed
    /\ pc[JobWait] = "wait"
    /\ disconnectTimeoutTimer' = TimerFired(disconnectTimeoutTimer)
    /\ UNCHANGED <<conf, lastPing, running, ticker, idleTimer, stopCloses, stopping, jobRunner,
                   apiClient, agentEndpoint, stopVars, pingVars, pc, lastCancel>>

\* <-a.disconnectTimeoutTimer.C in the job-wait task.
JobWaitRecv ==
    /\ pc[JobWait] = "wait"
    /\ disconnectTimeoutTimer.C
    /\ disconnectTimeoutTimer' = TimerRecv(disconnectTimeoutTimer)
    /\ pc' = [pc EXCEPT ![JobWait] = "stopIfIdle"]
    /\ UNCHANGED <<conf, lastPing, running, ticker, idleTimer, stopCloses, stopping, jobRunner,
                   apiClient, agentEndpoint, stopVars, pingVars, lastCancel>>

\* The runtime fires the idle timer.  A firing after the idle task has
\* returned has no receiver and is left out.
IdleFire ==
    /\ idleTimer.armed
    /\ pc[Idle] # "done"
    /\ idleTimer' = TimerFired(idleTimer)
    /\ UNCHANGED <<conf, lastPing, running, ticker, disconnectTimeoutTimer, stopCloses, stopping,
                   jobRunner, apiClient, agentEndpoint, stopVars, pingVars, pc, lastCancel>>

\* case <-a.idleTimer.C in the idle task.
IdleRecv ==
    /\ pc[Idle] = "wait"
    /\ idleTimer.C
    /\ idleTimer' = TimerRecv(idleTimer)
    /\ pc' = [pc EXCEPT ![Idle] = "stopIfIdle"]
    /\ UNCHANGED <<conf, lastPing, running, ticker, disconnectTimeoutTimer, stopCloses, stopping,
                   jobRunner, apiClient, agentEndpoint, stopVars, pingVars, lastCancel>>

\* case <-a.stop in the idle task.
IdleTaskStop ==
    /\ pc[Idle] = "wait"
    /\ stopClosed
    /\ pc' = [pc EXCEPT ![Idle] = "done"]
    /\ UNCHANGED <<conf, lastPing, workerVars, stopVars, pingVars, lastCancel>>

\* ------------------------------------------------------------------ Start
\* Start up to the ping loop: running is set, the ticker is created, the timer
\* tasks are started and their timers armed as the configuration asks.
Start ==
    /\ pc[Loop] = "new"
    /\ running' = TRUE
    /\ ticker' = "active"
    /\ disconnectTimeoutTimer' = IF conf.DisconnectAfterJob THEN NewTimer ELSE disconnectTimeoutTimer
    /\ idleTimer' = IF conf.DisconnectAfterIdleTimeout > 0 THEN NewTimer ELSE idleTimer
    /\ pc' = [pc EXCEPT ![Loop] = "top",
                        ![JobWait] = IF conf.DisconnectAfterJob THEN "wait" ELSE "off",
                        ![Idle] = IF conf.DisconnectAfterIdleTimeout > 0 THEN "wait" ELSE "off"]
    /\ UNCHANGED <<conf, lastPing, stopCloses, stopping, jobRunner, apiClient, agentEndpoint, stopVars,
                   pingVars, lastCancel>>

\* a.metricsCollector.Start() fails: Start returns the error at once.
StartMetricsFail ==
    /\ pc[Loop] = "new"
    /\ pc' = [pc EXCEPT ![Loop] = "failed", ![JobWait] = "off", ![Idle] = "off"]
    /\ UNCHANGED <<conf, lastPing, workerVars, stopVars, pingVars, lastCancel>>

\* if !a.stopping { a.Ping() }
LoopTop ==
    /\ pc[Loop] = "top"
    /\ pc' = [pc EXCEPT ![Loop] = IF ~stopping THEN "ping" ELSE "select"]
    /\ UNCHANGED <<conf, lastPing, workerVars, stopVars, pingVars, lastCancel>>

\* case <-a.ticker.C: continue.  The ticker sends a tick every ping interval,
\* so one is there to receive whenever the loop has waited long enough.
LoopTick ==
    /\ pc[Loop] = "select"
    /\ ticker = "active"
    /\ pc' = [pc EXCEPT ![Loop] = "top"]
    /\ UNCHANGED <<conf, lastPing, workerVars, stopVars, pingVars, lastCancel>>

\* LoopExit with a.running left set.
LoopExitStillRunning ==
    /\ pc[Loop] = "select"
    /\ stopClosed
    /\ ticker' = "stopped"
    /\ running' = running
    /\ pc' = [pc EXCEPT ![Loop] = "returned"]
    /\ UNCHANGED <<conf, lastPing, disconnectTimeoutTimer, idleTimer, stopCloses, stopping, jobRunner,
                   apiClient, agentEndpoint, stopVars, pingVars, lastCancel>>

\* case <-a.stop: the ticker is stopped, running is cleared, Start returns nil.
LoopExit ==
    /\ pc[Loop] = "select"
    /\ stopClosed
    /\ ticker' = "stopped"
    /\ running' = FALSE
    /\ pc' = [pc EXCEPT ![Loop] = "returned"]
    /\ UNCHANGED <<conf, lastPing, disconnectTimeoutTimer, idleTimer, stopCloses, stopping, jobRunner,
                   apiClient, agentEndpoint, stopVars, pingVars, lastCancel>>

\* ------------------------------------------------------------------- Ping
\* a.apiClient.Pings.Get() is called.
PingIssue ==
    /\ pc[Loop] = "ping"
    /\ pc' = [pc EXCEPT ![Loop] = "pinging"]
    /\ UNCHANGED <<conf, lastPing, workerVars, stopVars, pingVars, lastCancel>>

\* PingFail with the failure taken as a reason to disconnect.
PingFailDisconnects ==
    /\ pc[Loop] = "pinging"
    /\ disconnectTimeoutTimer' = IF disconnectTimeoutTimer.made
                                 THEN TimerReset(disconnectTimeoutTimer)
                                 ELSE disconnectTimeoutTimer
    /\ CallStop(Loop, FALSE)
    /\ UNCHANGED <<conf, lastPing, running, ticker, idleTimer, stopCloses, stopping, jobRunner,
                   apiClient, agentEndpoint, stopMutex, obs, pingVars, lastCancel>>

\* The call fails: the job-wait timer, if there is one, is reset; Ping returns.
PingFail ==
    /\ pc[Loop] = "pinging"
    /\ disconnectTimeoutTimer' = IF disconnectTimeoutTimer.made
                                 THEN TimerReset(disconnectTimeoutTimer)
                                 ELSE disconnectTimeoutTimer
    /\ pc' = [pc EXCEPT ![Loop] = "select"]
    /\ UNCHANGED <<conf, lastPing, running, ticker, idleTimer, stopCloses, stopping, jobRunner,
                   apiClient, agentEndpoint, stopVars, pingVars, lastCancel>>

\* The response once the endpoint switch is settled: ping.Endpoint is not read
\* again, ping.Action and ping.Job are.
Settled(resp) == [resp EXCEPT !.Endpoint = ""]

\* Directive with the disconnect directive overlooked when a job is assigned.
DirectiveJobFirst(resp) ==
    /\ attempts' = 0
    /\ IF resp.Job
       THEN /\ pc' = [pc EXCEPT ![Loop] = "accept"]
            /\ ping' = Settled(resp)
            /\ UNCHANGED <<frame, graceful>>
       ELSE IF resp.Action = "disconnect"
       THEN /\ CallStop(Loop, FALSE)
            /\ ping' = Settled(resp)
       ELSE /\ pc' = [pc EXCEPT ![Loop] = "select"]
            /\ ping' = NoPing
            /\ UNCHANGED <<frame, graceful>>

\* What Ping() does with the response it processes, once the endpoint switch is
\* settled: if ping.Action == "disconnect" { a.Stop(false); return };
\* if ping.Job == nil { return }; otherwise the retry of AcceptJob starts.
Directive(resp) ==
    /\ attempts' = 0
    /\ IF resp.Action = "disconnect"
       THEN /\ CallStop(Loop, FALSE)
            /\ ping' = Settled(resp)
       ELSE IF resp.Job
       THEN /\ pc' = [pc EXCEPT ![Loop] = "accept"]
            /\ ping' = Settled(resp)
            /\ UNCHANGED <<frame, graceful>>
       ELSE /\ pc' = [pc EXCEPT ![Loop] = "select"]
            /\ ping' = NoPing
            /\ UNCHANGED <<frame, graceful>>

\* if ping.Endpoint != "" && ping.Endpoint != a.agent.Endpoint
SwitchRequested(resp) == resp.Endpoint # "" /\ resp.Endpoint # agentEndpoint

\* The call returns a response: atomic.StoreInt64(&a.lastPing, ...) records the
\* time.  When the response asks for another endpoint, a client for
\* that endpoint is made and newAPIClient.Pings.Get() is called; otherwise the
\* response is processed.
PingOk(resp) ==
    /\ pc[Loop] = "pinging"
    /\ IF SwitchRequested(resp)
       THEN /\ ping' = resp
            /\ pc' = [pc EXCEPT ![Loop] = "probing"]
            /\ UNCHANGED <<frame, graceful, attempts>>
       ELSE Directive(resp)
    /\ lastPing' = 1
    /\ UNCHANGED <<conf, workerVars, stopMutex, obs, err, runsEntered,
                   lastCancel>>

\* ProbeFail with the switch made although the probe failed.
ProbeFailSwitches ==
    /\ pc[Loop] = "probing"
    /\ apiClient' = ping.Endpoint
    /\ agentEndpoint' = ping.Endpoint
    /\ pc' = [pc EXCEPT ![Loop] = "probefailed"]
    /\ UNCHANGED <<conf, lastPing, running, ticker, disconnectTimeoutTimer, idleTimer,
                   stopCloses, stopping, jobRunner, stopVars, pingVars, lastCancel>>

\* The probe fails: the failure is logged and the switch is ignored.
ProbeFail ==
    /\ pc[Loop] = "probing"
    /\ pc' = [pc EXCEPT ![Loop] = "probefailed"]
    /\ UNCHANGED <<conf, lastPing, workerVars, stopVars, pingVars, lastCancel>>

\* After a failed probe Ping() goes on with the first response.
ProbeIgnored ==
    /\ pc[Loop] = "probefailed"
    /\ Directive(ping)
    /\ UNCHANGED <<conf, lastPing, workerVars, stopMutex, obs, err, runsEntered,
                   lastCancel>>

\* ProbeOk with the first response processed instead of the probed one.
ProbeOkKeepsFirst(resp) ==
    /\ pc[Loop] = "probing"
    /\ apiClient' = ping.Endpoint
    /\ agentEndpoint' = ping.Endpoint
    /\ Directive(ping)
    /\ UNCHANGED <<conf, lastPing, running, ticker, disconnectTimeoutTimer, idleTimer, stopCloses,
                   stopping, jobRunner, stopMutex, obs, err, runsEntered, lastCancel>>

\* The probe succeeds: the client and the endpoint are replaced, and the probed
\* response is the one processed.
ProbeOk(resp) ==
    /\ pc[Loop] = "probing"
    /\ apiClient' = ping.Endpoint
    /\ agentEndpoint' = ping.Endpoint
    /\ Directive(resp)
    /\ UNCHANGED <<conf, lastPing, running, ticker, disconnectTimeoutTimer, idleTimer, stopCloses,
                   stopping, jobRunner, stopMutex, obs, err, runsEntered, lastCancel>>

\* One attempt of the retry: a.apiClient.Jobs.Accept(ping.Job) is called.
AcceptIssue ==
    /\ pc[Loop] = "accept"
    /\ pc' = [pc EXCEPT ![Loop] = "accepting"]
    /\ UNCHANGED <<conf, lastPing, workerVars, stopVars, pingVars, lastCancel>>

\* The attempt succeeds: accepted is set.
AcceptOk ==
    /\ pc[Loop] = "accepting"
    /\ attempts' = 0
    /\ pc' = [pc EXCEPT ![Loop] = "construct"]
    /\ UNCHANGED <<conf, lastPing, workerVars, stopVars, ping, err, runsEntered, lastCancel>>

\* The attempt fails with a retryable error: another attempt follows unless the
\* retry's Maximum is reached, and then Ping returns with accepted == nil.
AcceptRetryable ==
    /\ pc[Loop] = "accepting"
    /\ IF attempts + 1 < MaxAttempts
       THEN /\ attempts' = attempts + 1
            /\ pc' = [pc EXCEPT ![Loop] = "accept"]
            /\ ping' = ping
       ELSE /\ attempts' = 0
            /\ pc' = [pc EXCEPT ![Loop] = "select"]
            /\ ping' = NoPing
    /\ UNCHANGED <<conf, lastPing, workerVars, stopVars, err, runsEntered, lastCancel>>

\* The attempt fails with an error that is not retryable: s.Break(), and Ping
\* returns with accepted == nil.
AcceptRejected ==
    /\ pc[Loop] = "accepting"
    /\ attempts' = 0
    /\ ping' = NoPing
    /\ pc' = [pc EXCEPT ![Loop] = "select"]
    /\ UNCHANGED <<conf, lastPing, workerVars, stopVars, err, runsEntered, lastCancel>>

\* What NewJobRunner can return when the runner it allocates is r: the runner
\* and no error, or an error together with a nil or a non-nil runner.
NewJobRunner(r) == {<<r, FALSE>>, <<NoRunner, TRUE>>, <<r, TRUE>>}

\* The runner a new allocation yields, once it is assigned to a.jobRunner: one
\* that nothing else refers to (the first such, the runners being
\* interchangeable).
FreshRunner ==
    LET live == {obs[p] : p \in Callers}
        free == Runners \ live
    IN  CHOOSE r \in free : \A q \in free : r <= q

\* a.jobRunner, err = NewJobRunner(...)
Construct ==
    /\ pc[Loop] = "construct"
    /\ \E res \in NewJobRunner(FreshRunner) :
          /\ jobRunner' = res[1]
          /\ err' = res[2]
    /\ pc' = [pc EXCEPT ![Loop] = "timerstop"]
    /\ UNCHANGED <<conf, lastPing, running, ticker, disconnectTimeoutTimer, idleTimer, stopCloses,
                   stopping, apiClient, agentEndpoint, stopVars, ping, attempts, runsEntered,
                   lastCancel>>

\* JobTimerStop with the job-wait timer left running.
JobTimerStopSkipped ==
    /\ pc[Loop] = "timerstop"
    /\ disconnectTimeoutTimer' = disconnectTimeoutTimer
    /\ pc' = [pc EXCEPT ![Loop] = "errcheck"]
    /\ UNCHANGED <<conf, lastPing, running, ticker, idleTimer, stopCloses, stopping, jobRunner,
                   apiClient, agentEndpoint, stopVars, pingVars, lastCancel>>

\* if a.disconnectTimeoutTimer != nil { a.disconnectTimeoutTimer.Stop() }
JobTimerStop ==
    /\ pc[Loop] = "timerstop"
    /\ disconnectTimeoutTimer' = IF disconnectTimeoutTimer.made
                                 THEN TimerStop(disconnectTimeoutTimer)
                                 ELSE disconnectTimeoutTimer
    /\ pc' = [pc EXCEPT ![Loop] = "errcheck"]
    /\ UNCHANGED <<conf, lastPing, running, ticker, idleTimer, stopCloses, stopping, jobRunner,
                   apiClient, agentEndpoint, stopVars, pingVars, lastCancel>>

\* if err != nil { return }; otherwise a.jobRunner.Run() is entered.
RunCall ==
    /\ pc[Loop] = "errcheck"
    /\ err' = FALSE
    /\ IF err
       THEN /\ pc' = [pc EXCEPT ![Loop] = "select"]
            /\ ping' = NoPing
            /\ runsEntered' = runsEntered
       ELSE /\ pc' = [pc EXCEPT ![Loop] = "run"]
            /\ ping' = ping
            /\ runsEntered' = IF runsEntered < MaxRuns THEN runsEntered + 1 ELSE runsEntered
    /\ UNCHANGED <<conf, lastPing, workerVars, stopVars, attempts, lastCancel>>

\* Run() returns, with or without an error.
RunReturn ==
    /\ pc[Loop] = "run"
    /\ pc' = [pc EXCEPT ![Loop] = "clear"]
    /\ UNCHANGED <<conf, lastPing, workerVars, stopVars, pingVars, lastCancel>>

\* a.jobRunner = nil
ClearRunner ==
    /\ pc[Loop] = "clear"
    /\ jobRunner' = NoRunner
    /\ pc' = [pc EXCEPT ![Loop] = "post"]
    /\ UNCHANGED <<conf, lastPing, running, ticker, disconnectTimeoutTimer, idleTimer, stopCloses,
                   stopping, apiClient, agentEndpoint, stopVars, pingVars, lastCancel>>

\* PostJob with the disconnect-after-job branch left out.
PostJobNoDisconnect ==
    /\ pc[Loop] = "post"
    /\ pc' = [pc EXCEPT ![Loop] = "idlereset"]
    /\ UNCHANGED <<conf, lastPing, workerVars, stopVars, pingVars, lastCancel>>

\* if a.conf.DisconnectAfterJob { timer.Stop(); a.Stop(true) }
PostJob ==
    /\ pc[Loop] = "post"
    /\ IF conf.DisconnectAfterJob
       THEN /\ disconnectTimeoutTimer' = IF disconnectTimeoutTimer.made
                                         THEN TimerStop(disconnectTimeoutTimer)
                                         ELSE disconnectTimeoutTimer
            /\ CallStop(Loop, TRUE)
       ELSE /\ pc' = [pc EXCEPT ![Loop] = "idlereset"]
            /\ UNCHANGED <<disconnectTimeoutTimer, frame, graceful>>
    /\ UNCHANGED <<conf, lastPing, running, ticker, idleTimer, stopCloses, stopping, jobRunner,
                   apiClient, agentEndpoint, stopMutex, obs, pingVars, lastCancel>>

\* if a.conf.DisconnectAfterIdleTimeout > 0 { a.idleTimer.Reset(...) }; Ping returns.
IdleReset ==
    /\ pc[Loop] = "idlereset"
    /\ idleTimer' = IF conf.DisconnectAfterIdleTimeout > 0 THEN TimerReset(idleTimer)
                    ELSE idleTimer
    /\ pc' = [pc EXCEPT ![Loop] = "select"]
    /\ ping' = NoPing
    /\ UNCHANGED <<conf, lastPing, running, ticker, disconnectTimeoutTimer, stopCloses, stopping,
                   jobRunner, apiClient, agentEndpoint, stopVars, attempts, err, runsEntered, lastCancel>>

\* ------------------------------------------------------------ specification
Next ==
    \/ Start
    \/ StartMetricsFail
    \/ LoopTop
    \/ LoopTick
    \/ LoopExit
    \/ PingIssue
    \/ PingFail
    \/ \E resp \in PingResponses : PingOk(resp)
    \/ ProbeFail
    \/ ProbeIgnored
    \/ \E resp \in PingResponses : ProbeOk(resp)
    \/ AcceptIssue
    \/ AcceptOk
    \/ AcceptRetryable
    \/ AcceptRejected
    \/ Construct
    \/ JobTimerStop
    \/ RunCall
    \/ RunReturn
    \/ ClearRunner
    \/ PostJob
    \/ IdleReset
    \/ JobWaitFire
    \/ JobWaitRecv
    \/ IdleFire
    \/ IdleRecv
    \/ IdleTaskStop
    \/ \E p \in {JobWait, Idle} : stopIfIdle(p)
    \/ \E p \in Operators, g \in BOOLEAN : OpStop(p, g)
    \/ \E p \in Callers : Stop(p)

Spec == Init /\ [][Next]_vars

\* The steps the ping loop takes by itself: every call it makes returns (a Ping,
\* a probe, an AcceptJob attempt, Run()), and it goes on after each.
LoopStep ==
    \/ LoopTop
    \/ PingIssue
    \/ PingFail
    \/ \E resp \in PingResponses : PingOk(resp)
    \/ ProbeFail
    \/ ProbeIgnored
    \/ \E resp \in PingResponses : ProbeOk(resp)
    \/ AcceptIssue
    \/ AcceptOk
    \/ AcceptRetryable
    \/ AcceptRejected
    \/ Construct
    \/ JobTimerStop
    \/ RunCall
    \/ RunReturn
    \/ ClearRunner
    \/ PostJob
    \/ IdleReset

\* The steps of a Stop call once it holds a.stopMutex.
StopStep ==
    \E p \in Callers : StopCancel(p) \/ StopAfterCancel(p) \/ StopClose(p) \/ StopMark(p)

\* The scheduler runs every task that can take a step: the ping loop goes on,
\* and so does the task that holds a.stopMutex.  The ping loop's own Stop call
\* gets the mutex in the end (sync.Mutex hands a starving waiter the lock), and
\* the loop's select takes the case of a.stop in the end once a.stop is closed
\* (select picks among the ready cases at random, and the ticker is ready once
\* per interval only).  The two are one condition: the loop exits at most once,
\* so the steps it promises without end are the lock acquisitions.
Fairness ==
    /\ WF_vars(LoopStep)
    /\ WF_vars(StopStep)
    /\ SF_vars(StopEnter(Loop) \/ LoopExit)

\* The worker configured with DisconnectAfterJob.
InitDisconnectAfterJob == Init /\ conf.DisconnectAfterJob

FairSpecDisconnectAfterJob == InitDisconnectAfterJob /\ [][Next]_vars /\ Fairness

\* The worker in any configuration, scheduled fairly.
FairSpec == Init /\ [][Next]_vars /\ Fairness

\* The job-wait timer fires once its duration has passed, its task runs, and
\* the task's Stop call gets the mutex in the end.
JobWaitFairness ==
    /\ WF_vars(JobWaitFire)
    /\ WF_vars(JobWaitRecv \/ stopIfIdle(JobWait))
    /\ SF_vars(StopEnter(JobWait))

\* The worker configured with DisconnectAfterJob, its job-wait task scheduled
\* fairly as well.
FairSpecJobWait == InitDisconnectAfterJob /\ [][Next]_vars /\ Fairness /\ JobWaitFairness

TypeOK ==
    /\ stopCloses \in 0..2
    /\ stopMutex \in Callers \cup {"free"}
    /\ jobRunner \in {NoRunner} \cup Runners
    /\ lastCancel \in {NoCancel, "nil", "current", "stale"}
    /\ attempts \in 0..MaxAttempts
    /\ lastPing \in {0, 1}

\* ================================================================= claims

\* C1: however many Stop calls are made, in either mode and from whichever
\* tasks, a.stop is closed at most once, and it has been closed exactly once
\* whenever a Stop call returns.
C1_StopClosedOnce ==
    [][ /\ stopCloses' <= 1
        /\ \A p \in Callers : (frame[p] # "none" /\ frame'[p] = "none") => stopCloses' = 1 ]_vars

\* Three Stop calls are in progress at once: one has closed a.stop and holds the
\* mutex, two wait for it.
C1_Witness ==
    \E p, q, r \in Callers :
        /\ p # q /\ q # r /\ p # r
        /\ frame[p] = "mark" /\ frame[q] = "lock" /\ frame[r] = "lock"
        /\ stopCloses = 1

\* C2: once a.stopping is true the ping loop accepts no new job: no AcceptJob
\* call is begun, no runner is published into a.jobRunner and no Run() is
\* entered in a state where a.stopping is already true.
C2_NoAcceptOnceStopping ==
    [][ ( \/ (pc[Loop] = "accept" /\ pc'[Loop] = "accepting")
          \/ (pc[Loop] = "construct" /\ pc'[Loop] # "construct" /\ jobRunner' # NoRunner)
          \/ (pc[Loop] # "run" /\ pc'[Loop] = "run") )
        => ~stopping ]_vars

\* C3: once a.stopping is true the ping loop issues no new Ping: no Pings.Get
\* request (of the current client or of the client of a new endpoint) is begun
\* in a state where a.stopping is already true.
C3_NoPingOnceStopping ==
    [][ ( \/ (pc[Loop] = "ping" /\ pc'[Loop] = "pinging")
          \/ (pc[Loop] = "pinging" /\ pc'[Loop] = "probing") )
        => ~stopping ]_vars

\* C4, as claimed: whenever a forceful Stop invokes Cancel() while Run() is in
\* progress, a.stop has not been closed yet.
C4_CancelBeforeAnyClose ==
    [][ \A p \in Callers : (StopCancel(p) /\ pc[Loop] = "run") => ~stopClosed ]_vars

\* C4, amended: a forceful Stop that saw a.jobRunner set has invoked Cancel()
\* by the time it closes a.stop itself; and when a.stopping is still false at
\* its Cancel() call, a.stop is not closed yet and Start has not returned.
C4_CancelBeforeOwnClose ==
    [][ \A p \in Callers :
          /\ (StopClose(p) /\ ~graceful[p] /\ obs[p] # NoRunner)
                => (lastCancel # NoCancel /\ ~stopClosed /\ pc[Loop] # "returned")
          /\ (StopCancel(p) /\ ~stopping)
                => (~stopClosed /\ pc[Loop] # "returned") ]_vars

\* A forceful Stop saw the running job, cancelled it and then closed a.stop,
\* while Run() is still in progress.
C4_Witness ==
    \E p \in Callers :
        /\ frame[p] = "mark" /\ ~graceful[p] /\ obs[p] # NoRunner
        /\ pc[Loop] = "run" /\ obs[p] = jobRunner /\ lastCancel = "current"

\* C5: in every state in which Start has returned, a.jobRunner is nil (and no
\* Run() is in progress, Start's task being the one that runs it).
C5_NoJobWhenReturned ==
    pc[Loop] = "returned" => jobRunner = NoRunner

\* C6: a.jobRunner is assigned a runner only when it is nil, so that it is set
\* at most once between two clearings.
C6_AssignedOncePerClearing ==
    [][ (pc[Loop] = "construct" /\ pc'[Loop] # "construct" /\ jobRunner' # NoRunner)
          => jobRunner = NoRunner ]_vars

\* C7: with DisconnectAfterJob set, Run() is entered at most once; once it has
\* been entered the ping loop issues no further Ping and accepts no further job:
\* after Run() returns it calls Stop(true), and it is back in the loop only with
\* a.stopping set; and Start returns in the end.
C7_ExitsAfterOneJob ==
    /\ [](conf.DisconnectAfterJob =>
            /\ runsEntered <= 1
            /\ runsEntered = 1 =>
                 /\ pc[Loop] \in {"run", "clear", "post", "stop", "idlereset", "select", "top",
                                  "returned"}
                 /\ pc[Loop] = "stop" => graceful[Loop]
                 /\ pc[Loop] \in {"idlereset", "select", "top", "returned"} => stopping)
    /\ ((conf.DisconnectAfterJob /\ runsEntered = 1) ~> (pc[Loop] = "returned"))

\* With DisconnectAfterJob set, Start has returned after the one job was run.
C7_Witness ==
    /\ conf.DisconnectAfterJob /\ runsEntered = 1
    /\ pc[Loop] = "returned" /\ jobRunner = NoRunner

\* C8: Cancel() is invoked only by a Stop call in forceful mode: a graceful
\* Stop never reaches the Cancel() call, whoever makes it, and while Run() is
\* in progress no step but the return of Run() ends the job or drops its runner.
C8_GracefulNeverCancels ==
    [][ /\ \A p \in Callers : frame'[p] = "cancel" => ~graceful'[p]
        /\ lastCancel' \notin {lastCancel, NoCancel} =>
              \E p \in Callers : frame[p] = "cancel" /\ ~graceful[p] /\ frame'[p] # "cancel"
        /\ pc[Loop] = "run" => (jobRunner' = jobRunner /\ pc'[Loop] \in {"run", "clear"}) ]_vars

\* A graceful Stop has closed a.stop while Run() is in progress, and no
\* Cancel() has been invoked.
C8_Witness ==
    \E p \in Callers :
        /\ frame[p] = "mark" /\ graceful[p]
        /\ pc[Loop] = "run" /\ lastCancel = NoCancel

\* The response Ping() goes on to process in this step has Action "disconnect".
ProcessesDisconnect ==
    \/ \E resp \in PingResponses :
          /\ resp.Action = "disconnect"
          /\ \/ (PingOk(resp) /\ ~SwitchRequested(resp))
             \/ ProbeOk(resp)
    \/ (ProbeIgnored /\ ping.Action = "disconnect")

\* C9: when the response Ping() processes has Action "disconnect", Ping()
\* calls Stop(false) and nothing else; when that call returns a.stop is closed,
\* a.stopping is set and Ping() returns, no job accepted, published or run.
C9_DisconnectDirective ==
    [][ /\ ProcessesDisconnect =>
              (pc'[Loop] = "stop" /\ frame'[Loop] = "lock" /\ ~graceful'[Loop])
        /\ (pc[Loop] = "stop" /\ ~graceful[Loop]) =>
              /\ pc'[Loop] \in {"stop", "select"}
              /\ UNCHANGED <<jobRunner, runsEntered>>
              /\ pc'[Loop] = "select" => (stopping' /\ stopClosed') ]_vars

\* The ping loop's own Stop(false), called for a disconnect directive whose
\* response also carried a job, has closed a.stop.
C9_Witness ==
    /\ pc[Loop] = "stop" /\ ~graceful[Loop] /\ frame[Loop] = "mark"
    /\ ping.Action = "disconnect" /\ ping.Job

\* C10, as claimed: a step of a Stop call taken when a.stopping is already true
\* changes no worker state and is not part of a Cancel() call.
C10_LateStopNoOp ==
    [][ \A p \in Callers : (Stop(p) /\ stopping) =>
          /\ UNCHANGED workerVars
          /\ frame[p] # "cancel" /\ frame'[p] # "cancel" ]_vars

\* C10, amended: a step of a Stop call taken when a.stopping is already true
\* changes no worker state; in graceful mode it invokes nothing on the runner,
\* in forceful mode it still invokes Cancel() when a.jobRunner is set.
C10_LateStopOnlyCancels ==
    [][ \A p \in Callers : (Stop(p) /\ stopping) =>
          /\ UNCHANGED workerVars
          /\ frame'[p] # "close"
          /\ graceful[p] => (lastCancel' = lastCancel /\ frame[p] # "cancel" /\ frame'[p] # "cancel")
          /\ (~graceful[p] /\ frame[p] = "lock" /\ jobRunner # NoRunner) => frame'[p] = "cancel"
          /\ (~graceful[p] /\ frame[p] = "cancel") => lastCancel' # NoCancel ]_vars

\* A forceful Stop made after a.stopping was set is about to cancel the job
\* that is still running.
C10_Witness ==
    \E p \in Callers :
        /\ stopping /\ frame[p] = "cancel" /\ ~graceful[p]
        /\ pc[Loop] = "run" /\ obs[p] = jobRunner

\* C11: once a.stop is closed while Start is in progress (whichever mode of
\* Stop closed it), and the calls the ping loop is in return, the loop takes
\* the case of a.stop in its select: the ticker is stopped, a.running is
\* cleared and Start returns nil.
C11_StartReturnsAfterStop ==
    (stopClosed /\ running) ~> (pc[Loop] = "returned" /\ ~running /\ ticker = "stopped")

\* Start has returned through the select, a.stop closed and a.stopping set,
\* in a worker that has run a job and does not disconnect after a job.
C11_Witness ==
    /\ pc[Loop] = "returned" /\ ~running /\ ticker = "stopped"
    /\ stopClosed /\ stopping /\ runsEntered > 0 /\ ~conf.DisconnectAfterJob

\* What a failed Ping leaves alone: no Stop is begun, a.stopping, a.stop,
\* a.jobRunner, the client, the endpoint, a.lastPing and the idle timer are
\* unchanged, and Ping returns to the loop's select.
PingFailKeeps ==
    /\ pc'[Loop] = "select"
    /\ UNCHANGED <<conf, lastPing, running, ticker, idleTimer, stopCloses, stopping, jobRunner,
                   apiClient, agentEndpoint, stopVars, pingVars, lastCancel>>
    /\ \A p \in Callers \ {Loop} : pc'[p] = pc[p]

\* C12, as claimed: a failed Ping resets the job-wait timer when it is armed
\* (running) and changes nothing otherwise.
C12_ResetsOnlyWhenArmed ==
    [][ PingFail =>
          /\ PingFailKeeps
          /\ disconnectTimeoutTimer' = IF disconnectTimeoutTimer.armed
                                       THEN TimerReset(disconnectTimeoutTimer)
                                       ELSE disconnectTimeoutTimer ]_vars

\* C12, amended: a failed Ping resets the job-wait timer whenever the worker has
\* one, be it running, expired or stopped, so that it is running afterwards;
\* a value it has already sent stays in C; nothing else changes.
C12_ResetsWheneverMade ==
    [][ PingFail =>
          /\ PingFailKeeps
          /\ disconnectTimeoutTimer'.made = disconnectTimeoutTimer.made
          /\ disconnectTimeoutTimer'.armed = disconnectTimeoutTimer.made
          /\ disconnectTimeoutTimer'.C = disconnectTimeoutTimer.C ]_vars

\* No Ping has succeeded yet, and a failed Ping has reset the job-wait timer
\* after it had fired: it is running again and its first value is still in C.
C12_Witness ==
    /\ lastPing = 0 /\ pc[Loop] = "select"
    /\ disconnectTimeoutTimer.armed /\ disconnectTimeoutTimer.C

\* C13: once AcceptJob has succeeded the job-wait timer is stopped before Run()
\* is entered: it is not running when Run() is entered nor in any state in which
\* Run() is in progress.
C13_TimerStoppedDuringRun ==
    pc[Loop] \in {"errcheck", "run"} => ~disconnectTimeoutTimer.armed

\* Run() is in progress, and the job-wait timer was stopped before it fired:
\* its task still waits for it.
C13_Witness ==
    /\ pc[Loop] = "run" /\ pc[JobWait] = "wait"
    /\ disconnectTimeoutTimer.made /\ ~disconnectTimeoutTimer.armed /\ ~disconnectTimeoutTimer.C

\* Ping() acts on resp in this step: it calls Stop(false) when resp.Action is
\* "disconnect", otherwise goes on to accept resp.Job when there is one, and
\* otherwise returns.
ActsOn(resp) ==
    IF resp.Action = "disconnect"
    THEN pc'[Loop] = "stop" /\ frame'[Loop] = "lock" /\ ~graceful'[Loop]
    ELSE IF resp.Job
    THEN pc'[Loop] = "accept" /\ frame'[Loop] = "none"
    ELSE pc'[Loop] = "select" /\ frame'[Loop] = "none"

\* C14: when the probe of a requested endpoint fails, a.apiClient and
\* a.agent.Endpoint stay as they are, and Ping() goes on to act on the first
\* response: its Action and its Job.
C14_ProbeFailureIgnored ==
    [][ /\ ProbeFail => UNCHANGED <<apiClient, agentEndpoint, ping, workerVars>>
        /\ ProbeIgnored => (UNCHANGED <<apiClient, agentEndpoint, workerVars>> /\ ActsOn(ping)) ]_vars

\* The probe of the requested endpoint has failed; the client is the old one,
\* and the first response, which carries a disconnect directive and a job, is
\* about to be processed.
C14_Witness ==
    /\ pc[Loop] = "probefailed"
    /\ ping.Endpoint # "" /\ ping.Endpoint # agentEndpoint /\ apiClient = agentEndpoint
    /\ ping.Action = "disconnect" /\ ping.Job

\* A response that assigns a job is being processed by Ping().
JobAssigned ==
    pc[Loop] \in {"accept", "accepting", "construct", "timerstop", "errcheck", "run", "clear",
                  "post"}

\* C15: with DisconnectAfterJob set, from Start on (no Ping has succeeded yet)
\* either a job is assigned at some time or Start returns: the job-wait timer
\* fires, its task calls stopIfIdle, which finds no job and calls Stop(true)
\* unless the worker is stopping already, and the ping loop leaves through its
\* select.
C15_ReturnsWithoutJob ==
    /\ (conf.DisconnectAfterJob /\ running /\ lastPing = 0)
          ~> (pc[Loop] = "returned" \/ JobAssigned)
    /\ [][ (pc[JobWait] = "stopIfIdle" /\ pc'[JobWait] # "stopIfIdle"
             /\ jobRunner = NoRunner /\ ~stopping)
             => (frame'[JobWait] = "lock" /\ graceful'[JobWait]) ]_vars

\* No job has been run, and the Stop(true) that stopIfIdle called from the
\* job-wait task has closed a.stop.
C15_Witness ==
    /\ conf.DisconnectAfterJob /\ runsEntered = 0 /\ jobRunner = NoRunner
    /\ frame[JobWait] = "mark" /\ graceful[JobWait] /\ stopCloses = 1

\* C16: the Stop(true) that stopIfIdle calls from a timer task never closes
\* a.stop, nor sets a.stopping, while a.jobRunner is set: a job that is running
\* is left to finish with a.stopping still false.
C16_TimerNeverStopsDuringJob ==
    [][ \A p \in {JobWait, Idle} :
          (StopClose(p) \/ StopMark(p)) => (jobRunner = NoRunner /\ pc[Loop] # "run") ]_vars

\* Ping returns to the loop after a job was accepted.
JobTail ==
    pc[Loop] \in {"errcheck", "idlereset"} /\ pc'[Loop] = "select"

\* C17: when Ping returns to the loop after a job was accepted, whether the
\* runner could not be constructed or Run() returned (with an error or not),
\* a.jobRunner is nil, with DisconnectAfterJob a Stop(true) has been made, and
\* with DisconnectAfterIdleTimeout > 0 the idle timer has just been reset.
C17_ErrorTreatedAsFinishedJob ==
    [][ JobTail =>
          /\ jobRunner' = NoRunner
          /\ conf.DisconnectAfterJob => stopping'
          /\ conf.DisconnectAfterIdleTimeout > 0 => idleTimer' = TimerReset(idleTimer) ]_vars

\* C18: once a.stop is closed, the job-wait task that Start started (if any)
\* eventually returns, also when its timer was stopped because a job was
\* accepted.
C18_JobWaitTaskTerminates ==
    (stopClosed /\ pc[JobWait] \notin {"new", "off"}) ~> (pc[JobWait] = "done")

\* C19: when the probe of a requested endpoint succeeds, the client is
\* replaced, a.agent.Endpoint becomes the requested endpoint, and Ping() acts on
\* the Action and Job of the probed response, not on those of the first one.
C19_ProbedResponseAdopted ==
    [][ \A resp \in PingResponses :
          ProbeOk(resp) =>
            /\ apiClient' = ping.Endpoint
            /\ agentEndpoint' = ping.Endpoint
            /\ agentEndpoint' # agentEndpoint
            /\ ActsOn(resp)
            /\ UNCHANGED <<running, ticker, disconnectTimeoutTimer, idleTimer, stopCloses,
                           stopping, jobRunner>> ]_vars

C19_Witness ==
    /\ agentEndpoint = "E2" /\ apiClient = "E2"
    /\ pc[Loop] = "accept" /\ ping.Job /\ ping.Action = ""
    /\ attempts = 0 /\ runsEntered = 0

\* C20: while a.jobRunner is set no Ping is in flight and no response is being
\* processed, and a Cancel() that reaches the current runner is made by a
\* Stop(false) of a caller other than the ping loop.
C20_NoPingDuringJob ==
    /\ [](jobRunner # NoRunner => pc[Loop] \notin {"pinging", "probing", "probefailed"})
    /\ [][ \A p \in Callers :
             (StopCancel(p) /\ lastCancel' = "current") => (p # Loop /\ ~graceful[p]) ]_vars

====
